---- MODULE Spec2Model ----
(***************************************************************************)
(* RS274D command interpreter of gerbview (gerbview/rs274d.cpp):           *)
(* GERBER_FILE_IMAGE::Execute_G_Command and Execute_DCODE_Command, with    *)
(* the item builders fillLineGBRITEM, fillArcGBRITEM, fillFlashedGBRITEM   *)
(* and fillArcPOLY.                                                        *)
(*                                                                         *)
(* Points are pairs <<x, y>>.  A draw item is a record; its field sr       *)
(* counts how often the item was passed to StepAndRepeatItem.              *)
(***************************************************************************)
EXTENDS Integers, Sequences, FiniteSets, TLC

(***************************************************************************)
(* Bounds of the model                                                     *)
(***************************************************************************)
\* the number of G and D commands of the input stream
MaxCmds == 4
\* the same for the streams made of region commands only
MaxRegionCmds == 6
\* number of commands in a stream of tool selections
MaxSelectCmds == 4
\* number of commands in a stream of comments, moves and draws
MaxCommentCmds == 4
\* number of D commands in a stream of tool selections and flashes
MaxFlashCmds == 4

(***************************************************************************)
(* Program constants                                                       *)
(***************************************************************************)
FIRST_DCODE == 10
TOOLS_MAX_COUNT == 1000

GC_MOVE == 0
GC_LINEAR_INTERPOL_1X == 1
GC_CIRCLE_NEG_INTERPOL == 2
GC_CIRCLE_POS_INTERPOL == 3
GC_COMMENT == 4
GC_LINEAR_INTERPOL_10X == 10
GC_TURN_ON_POLY_FILL == 36
GC_TURN_OFF_POLY_FILL == 37
GC_SELECT_TOOL == 54
GC_PHOTO_MODE == 55
GC_SPECIFY_INCHES == 70
GC_SPECIFY_MILLIMETERS == 71
GC_TURN_OFF_360_INTERPOL == 74
GC_TURN_ON_360_INTERPOL == 75
GC_SPECIFY_ABSOLUES_COORD == 90
GC_SPECIFY_RELATIVEES_COORD == 91

GERB_INTERPOL_LINEAR_1X == "GERB_INTERPOL_LINEAR_1X"
GERB_INTERPOL_ARC_NEG == "GERB_INTERPOL_ARC_NEG"
GERB_INTERPOL_ARC_POS == "GERB_INTERPOL_ARC_POS"

NULL == [null |-> TRUE]

(***************************************************************************)
(* Inputs                                                                  *)
(***************************************************************************)
Points == {<<0, 0>>, <<10, 0>>}
RegionPoints == {<<0, 0>>, <<10, 0>>, <<10, 10>>}
IJValues == {<<10, 0>>}
PenCodes == {1, 2, 3, 4}
ToolCodes == {10, TOOLS_MAX_COUNT + 5}
UnknownGCodes == {GC_MOVE, GC_LINEAR_INTERPOL_10X}

\* the aperture table of the image: D10 a circle given with an asymmetric
\* size, D11 a rectangle, D12 an oval, D13 a regular polygon, D14 a macro;
\* every other tool is undefined
Apertures ==
    (10 :> [m_Num_Dcode |-> 10, m_Shape |-> "APT_CIRCLE", m_Size |-> <<20, 10>>])
 @@ (11 :> [m_Num_Dcode |-> 11, m_Shape |-> "APT_RECT", m_Size |-> <<30, 20>>])
 @@ (12 :> [m_Num_Dcode |-> 12, m_Shape |-> "APT_OVAL", m_Size |-> <<30, 10>>])
 @@ (13 :> [m_Num_Dcode |-> 13, m_Shape |-> "APT_POLYGON", m_Size |-> <<25, 25>>])
 @@ (14 :> [m_Num_Dcode |-> 14, m_Shape |-> "APT_MACRO", m_Size |-> <<5, 5>>])

GetDCODE(aDCODE) ==
    IF aDCODE \in DOMAIN Apertures THEN Apertures[aDCODE] ELSE NULL

(***************************************************************************)
(* Geometry helpers                                                        *)
(***************************************************************************)
Abs(n) == IF n < 0 THEN -n ELSE n

PAdd(a, b) == <<a[1] + b[1], a[2] + b[2]>>
PSub(a, b) == <<a[1] - b[1], a[2] - b[2]>>
PNeg(a) == <<-a[1], -a[2]>>

\* sin and cos of k * 10 degrees, k = 0..35, scaled by 10^7 (index k + 1)
TrigScale == 10000000
SinTable ==
    <<0, 1736482, 3420201, 4999999, 6427876, 7660444, 8660254, 9396926,
      9848078, 10000000, 9848078, 9396926, 8660254, 7660444, 6427876,
      4999999, 3420201, 1736482, 0, -1736482, -3420201, -4999999, -6427876,
      -7660444, -8660254, -9396926, -9848078, -10000000, -9848078, -9396926,
      -8660254, -7660444, -6427876, -4999999, -3420201, -1736482>>
CosTable ==
    <<10000000, 9848078, 9396926, 8660254, 7660444, 6427876, 5000001,
      3420201, 1736482, 0, -1736482, -3420201, -4999999, -6427876, -7660444,
      -8660254, -9396926, -9848078, -10000000, -9848078, -9396926, -8660254,
      -7660444, -6427876, -5000001, -3420201, -1736482, 0, 1736482, 3420201,
      5000001, 6427876, 7660444, 8660254, 9396926, 9848078>>

\* KiROUND of v / TrigScale: round half away from zero
KiROUND(v) ==
    IF v < 0 THEN -((-v + TrigScale \div 2) \div TrigScale)
             ELSE (v + TrigScale \div 2) \div TrigScale

\* NORMALIZE_ANGLE_POS: angle in 0.1 degree brought into [0, 3600)
RECURSIVE NormalizeAnglePos(_)
NormalizeAnglePos(angle) ==
    IF angle < 0 THEN NormalizeAnglePos(angle + 3600)
    ELSE IF angle >= 3600 THEN NormalizeAnglePos(angle - 3600)
    ELSE angle

\* RotatePoint( &p, angle ), angle a multiple of 10 degrees (in 0.1 degree)
RotatePoint(p, angle) ==
    LET a == NormalizeAnglePos(angle)
        k == (a \div 100) + 1
    IN  IF a = 0 THEN p
        ELSE IF a = 900 THEN <<p[2], -p[1]>>
        ELSE IF a = 1800 THEN <<-p[1], -p[2]>>
        ELSE IF a = 2700 THEN <<-p[2], p[1]>>
        ELSE <<KiROUND(p[2] * SinTable[k] + p[1] * CosTable[k]),
               KiROUND(p[2] * CosTable[k] - p[1] * SinTable[k])>>

\* ArcTangente( dy, dx ) in 1/1000 of 0.1 degree, for dx, dy multiples of 5
\* in -20..20; row (dx / 5) + 5, column (dy / 5) + 5
ArcTanTable ==
    << <<-1350000, -1431301, -1534349, -1659638, -1800000, 1659638, 1534349, 1431301, 1350000>>,
       <<-1268699, -1350000, -1463099, -1615651, -1800000, 1615651, 1463099, 1350000, 1268699>>,
       <<-1165651, -1236901, -1350000, -1534349, -1800000, 1534349, 1350000, 1236901, 1165651>>,
       <<-1040362, -1084349, -1165651, -1350000, -1800000, 1350000, 1165651, 1084349, 1040362>>,
       <<-900000, -900000, -900000, -900000, 0, 900000, 900000, 900000, 900000>>,
       <<-759638, -715651, -634349, -450000, 0, 450000, 634349, 715651, 759638>>,
       <<-634349, -563099, -450000, -265651, 0, 265651, 450000, 563099, 634349>>,
       <<-531301, -450000, -336901, -184349, 0, 184349, 336901, 450000, 531301>>,
       <<-450000, -368699, -265651, -140362, 0, 140362, 265651, 368699, 450000>> >>

ArcTangente(dy, dx) == ArcTanTable[(dx \div 5) + 5][(dy \div 5) + 5]

\* pairs (start, end), as <<sx, sy, ex, ey>>, whose angles are a whole
\* number of 10 degree steps apart on paper while the subtraction of the two
\* doubles falls just short of it
RoundingLoss ==
    {<<-20, -10, 5, -10>>, <<-20, -10, 10, -20>>, <<-20, -5, 5, -20>>, <<-20, 15, -15, -20>>,
     <<-20, 15, 20, -15>>, <<-15, 5, -5, -15>>, <<-15, 5, 15, -5>>, <<-15, 10, -10, -15>>,
     <<-15, 10, 15, -10>>, <<-10, -20, 10, -5>>, <<-10, -20, 20, -10>>, <<-10, -5, 5, -10>>,
     <<-10, -5, 10, -20>>, <<-5, -10, 10, -5>>, <<-5, -10, 20, -10>>, <<-5, 15, -15, -5>>,
     <<5, 10, -20, 10>>, <<5, 10, -10, 5>>, <<5, 20, -20, 5>>, <<10, 5, -10, 20>>,
     <<10, 5, -5, 10>>, <<10, 20, -20, 10>>, <<10, 20, -10, 5>>, <<15, 20, -15, -20>>,
     <<20, 10, -10, 20>>, <<20, 10, -5, 10>>}


(***************************************************************************)
(* Draw items                                                              *)
(***************************************************************************)
\* a freshly constructed GERBER_DRAW_ITEM
NewItem ==
    [m_Shape |-> "GBR_SEGMENT", m_Flashed |-> FALSE,
     m_Start |-> <<0, 0>>, m_End |-> <<0, 0>>, m_ArcCentre |-> <<0, 0>>,
     m_Size |-> <<0, 0>>, m_DCode |-> 0, m_Polygon |-> <<>>, sr |-> 0]

Last(s) == s[Len(s)]
SetLast(s, e) == [s EXCEPT ![Len(s)] = e]

StepAndRepeatItem(aItem) == [aItem EXCEPT !.sr = @ + 1]

\* fillFlashedGBRITEM keeping the size of a circle as it was given
fillFlashedGBRITEM_given(aGbrItem, aAperture, Dcode_index, aPos, aSize) ==
    LET it == [aGbrItem EXCEPT !.m_Size = aSize, !.m_Start = aPos,
                               !.m_End = aPos, !.m_DCode = Dcode_index,
                               !.m_Flashed = TRUE]
    IN  CASE aAperture = "APT_POLYGON" -> [it EXCEPT !.m_Shape = "GBR_SPOT_POLY"]
          [] aAperture = "APT_CIRCLE" -> [it EXCEPT !.m_Shape = "GBR_SPOT_CIRCLE"]
          [] aAperture = "APT_OVAL" -> [it EXCEPT !.m_Shape = "GBR_SPOT_OVAL"]
          [] aAperture = "APT_RECT" -> [it EXCEPT !.m_Shape = "GBR_SPOT_RECT"]
          [] aAperture = "APT_MACRO" -> [it EXCEPT !.m_Shape = "GBR_SPOT_MACRO"]
          [] OTHER -> it

fillFlashedGBRITEM(aGbrItem, aAperture, Dcode_index, aPos, aSize) ==
    LET it == [aGbrItem EXCEPT !.m_Size = aSize, !.m_Start = aPos,
                               !.m_End = aPos, !.m_DCode = Dcode_index,
                               !.m_Flashed = TRUE]
    IN  CASE aAperture = "APT_POLYGON" -> [it EXCEPT !.m_Shape = "GBR_SPOT_POLY"]
          [] aAperture = "APT_CIRCLE" ->
                [it EXCEPT !.m_Shape = "GBR_SPOT_CIRCLE",
                           !.m_Size = <<aSize[1], aSize[1]>>]
          [] aAperture = "APT_OVAL" -> [it EXCEPT !.m_Shape = "GBR_SPOT_OVAL"]
          [] aAperture = "APT_RECT" -> [it EXCEPT !.m_Shape = "GBR_SPOT_RECT"]
          [] aAperture = "APT_MACRO" -> [it EXCEPT !.m_Shape = "GBR_SPOT_MACRO"]
          [] OTHER -> it

\* fillLineGBRITEM with the two end points taken in the wrong order
fillLineGBRITEM_swapped(aGbrItem, Dcode_index, aStart, aEnd, aPenSize) ==
    [aGbrItem EXCEPT !.m_Flashed = FALSE, !.m_Size = aPenSize,
                     !.m_Start = aEnd, !.m_End = aStart,
                     !.m_DCode = Dcode_index]

fillLineGBRITEM(aGbrItem, Dcode_index, aStart, aEnd, aPenSize) ==
    [aGbrItem EXCEPT !.m_Flashed = FALSE, !.m_Size = aPenSize,
                     !.m_Start = aStart, !.m_End = aEnd,
                     !.m_DCode = Dcode_index]

\* QuadrantCenter leaving the x sign alone in the quadrant dx >= 0, dy >= 0
QuadrantCenter_q1(aStart, aEnd, aRelCenter) ==
    LET delta == PSub(aEnd, aStart)
    IN  IF delta[1] >= 0 THEN aRelCenter
        ELSE IF delta[2] >= 0 THEN <<-aRelCenter[1], -aRelCenter[2]>>
        ELSE <<aRelCenter[1], -aRelCenter[2]>>

\* the relative centre with its signs recovered from the quadrant of
\* aEnd - aStart (single quadrant mode)
QuadrantCenter(aStart, aEnd, aRelCenter) ==
    LET delta == PSub(aEnd, aStart)
    IN  IF delta[1] >= 0 /\ delta[2] >= 0 THEN <<-aRelCenter[1], aRelCenter[2]>>
        ELSE IF delta[1] >= 0 /\ delta[2] < 0 THEN aRelCenter
        ELSE IF delta[1] < 0 /\ delta[2] >= 0 THEN <<-aRelCenter[1], -aRelCenter[2]>>
        ELSE <<aRelCenter[1], -aRelCenter[2]>>

\* ArcCenter without the negation for counter-clockwise arcs
ArcCenter_nonegate(aStart, aEnd, aRelCenter, aClockwise, aMultiquadrant) ==
    IF aMultiquadrant THEN PAdd(aStart, aRelCenter)
    ELSE PAdd(QuadrantCenter(aStart, aEnd, aRelCenter), aStart)

ArcCenter(aStart, aEnd, aRelCenter, aClockwise, aMultiquadrant) ==
    IF aMultiquadrant THEN PAdd(aStart, aRelCenter)
    ELSE LET q == QuadrantCenter(aStart, aEnd, aRelCenter)
         IN  PAdd(IF ~aClockwise THEN PNeg(q) ELSE q, aStart)

fillArcGBRITEM(aGbrItem, Dcode_index, aStart, aEnd, aRelCenter, aPenSize, aClockwise, aMultiquadrant) ==
    [aGbrItem EXCEPT
        !.m_Shape = "GBR_ARC", !.m_Size = aPenSize, !.m_Flashed = FALSE,
        !.m_Start = IF aClockwise THEN aStart ELSE aEnd,
        !.m_End = IF aClockwise THEN aEnd ELSE aStart,
        !.m_ArcCentre = ArcCenter(aStart, aEnd, aRelCenter, aClockwise,
                                  aMultiquadrant),
        !.m_DCode = Dcode_index]

\* int count = std::abs( arc_angle / increment_angle ), start and end being
\* relative to the arc centre
ArcStepCount(start, end) ==
    LET start_angle == ArcTangente(start[2], start[1])
        end_angle0 == ArcTangente(end[2], end[1])
        end_angle == IF start_angle > end_angle0 THEN end_angle0 + 3600000
                     ELSE end_angle0
        exact == Abs(start_angle - end_angle) \div 100000
    IN  IF <<start[1], start[2], end[1], end[2]>> \in RoundingLoss
        THEN exact - 1 ELSE exact

\* the corners fillArcPOLY appends, in order
ArcCorners(aStart, aEnd, rel_center, aClockwise, aMultiquadrant) ==
    LET dummy == fillArcGBRITEM(NewItem, 0, aStart, aEnd, rel_center, <<0, 0>>,
                                aClockwise, aMultiquadrant)
        center == dummy.m_ArcCentre
        start == PSub(dummy.m_Start, center)
        end == PSub(dummy.m_End, center)
        count == ArcStepCount(start, end)
        rot(ii) == IF aClockwise THEN ii * 100 ELSE (count - ii) * 100
        end_arc(ii) == IF ii < count THEN RotatePoint(start, -rot(ii))
                       ELSE IF aClockwise THEN end ELSE start
    IN  [i \in 1..(count + 1) |-> PAdd(end_arc(i - 1), center)]

fillArcPOLY(aGbrItem, aStart, aEnd, rel_center, aClockwise, aMultiquadrant) ==
    [aGbrItem EXCEPT !.m_Polygon =
        @ \o ArcCorners(aStart, aEnd, rel_center, aClockwise, aMultiquadrant)]

\* ClosePolygon repeating the last vertex instead of the first
ClosePolygon_last(gbritem) ==
    StepAndRepeatItem([gbritem EXCEPT !.m_Polygon = Append(@, @[Len(@)])])

\* gbritem->m_Polygon.Append( gbritem->m_Polygon.Vertex( 0 ) ) followed by
\* StepAndRepeatItem( *gbritem )
ClosePolygon(gbritem) ==
    StepAndRepeatItem([gbritem EXCEPT !.m_Polygon = Append(@, @[1])])

(***************************************************************************)
(* State                                                                   *)
(***************************************************************************)
VARIABLES
    m_CurrentPos, m_PreviousPos, m_IJPos, m_LastCoordIsIJPos,
    m_Iterpolation, m_GerbMetric, m_Relative, m_360Arc_enbl,
    m_PolygonFillMode, m_PolygonFillModeState, m_Exposure,
    m_Last_Pen_Command, m_Current_Tool,
    m_Drawings,     \* the item list, in creation order
    m_InUse,        \* the tools whose aperture has m_InUse set
    m_messages,     \* the messages given to AddMessageToList
    text,           \* what is left of the line after the last G command
    x2cmds,         \* the strings given to ExecuteRS274XCommand
    ret,            \* what the last Execute_..._Command returned
    crashed,        \* the process died in an invalid memory access
    nCmds,          \* number of G and D commands executed so far
    mon,            \* observer of the command pattern G36, D02, D01.., G37
    call            \* a call of an item builder: its arguments and the item

posVars == <<m_CurrentPos, m_PreviousPos, m_IJPos, m_LastCoordIsIJPos>>
modeVars == <<m_Iterpolation, m_GerbMetric, m_Relative, m_360Arc_enbl,
              m_PolygonFillMode, m_PolygonFillModeState, m_Exposure>>
toolVars == <<m_Current_Tool, m_InUse>>
ioVars == <<m_messages, text, x2cmds>>
progVars == <<posVars, modeVars, toolVars, ioVars, m_Last_Pen_Command,
              m_Drawings, ret, crashed>>
vars == <<progVars, nCmds, mon, call>>

\* no call of an item builder is observed
NoCall ==
    [fn |-> "none", aStart |-> <<0, 0>>, aEnd |-> <<0, 0>>,
     aRelCenter |-> <<0, 0>>, aClockwise |-> FALSE, aMultiquadrant |-> FALSE,
     before |-> NewItem, item |-> NewItem]

ResetDefaultValues ==
    /\ m_CurrentPos = <<0, 0>>
    /\ m_PreviousPos = <<0, 0>>
    /\ m_IJPos = <<0, 0>>
    /\ m_LastCoordIsIJPos = FALSE
    /\ m_Iterpolation = GERB_INTERPOL_LINEAR_1X
    /\ m_GerbMetric = FALSE
    /\ m_Relative = FALSE
    /\ m_360Arc_enbl = FALSE
    /\ m_PolygonFillMode = FALSE
    /\ m_PolygonFillModeState = 0
    /\ m_Exposure = FALSE
    /\ m_Last_Pen_Command = 0
    /\ m_Current_Tool = 0
    /\ m_Drawings = <<>>
    /\ m_InUse = {}
    /\ m_messages = <<>>
    /\ text = <<>>
    /\ x2cmds = <<>>
    /\ ret = TRUE
    /\ crashed = FALSE

Init ==
    /\ ResetDefaultValues
    /\ nCmds = 0
    /\ mon = [phase |-> "none", base |-> 0, pts |-> <<>>]
    /\ call = NoCall


(***************************************************************************)
(* Text of the line being read: a sequence of characters                   *)
(***************************************************************************)
Digits == <<"0", "1", "2", "3", "4", "5", "6", "7", "8", "9">>
IsDigit(c) == \E i \in 1..10 : Digits[i] = c
DigitVal(c) == (CHOOSE i \in 1..10 : Digits[i] = c) - 1
IsNumber(c) == IsDigit(c) \/ c \in {"-", "+", ".", ","}

Drop(s, n) == SubSeq(s, n + 1, Len(s))

\* length of the longest prefix of s made of characters satisfying IsNumber
RECURSIVE NumberSpan(_)
NumberSpan(s) ==
    IF s # <<>> /\ IsNumber(s[1]) THEN 1 + NumberSpan(Drop(s, 1)) ELSE 0

\* atoi of a string without leading blanks
RECURSIVE DigitsValue(_, _)
DigitsValue(s, acc) ==
    IF s # <<>> /\ IsDigit(s[1])
    THEN DigitsValue(Drop(s, 1), acc * 10 + DigitVal(s[1]))
    ELSE acc
atoi(s) ==
    IF s # <<>> /\ s[1] = "-" THEN -DigitsValue(Drop(s, 1), 0)
    ELSE IF s # <<>> /\ s[1] = "+" THEN DigitsValue(Drop(s, 1), 0)
    ELSE DigitsValue(s, 0)

\* DCodeNumber( Text ): the value returned and the text left
DCodeNumber(Text) ==
    LET after == Drop(Text, 1)
    IN  atoi(SubSeq(after, 1, NumberSpan(after)))
DCodeNumberRest(Text) ==
    LET after == Drop(Text, 1)
    IN  Drop(after, NumberSpan(after))

\* while( *text && (*text != '*') ) text++
RECURSIVE SkipToStar(_)
SkipToStar(s) ==
    IF s # <<>> /\ s[1] # "*" THEN SkipToStar(Drop(s, 1)) ELSE s
RECURSIVE UpToStar(_)
UpToStar(s) ==
    IF s # <<>> /\ s[1] # "*" THEN <<s[1]>> \o UpToStar(Drop(s, 1)) ELSE <<>>

X2Marker == <<" ", "#", "@", "!", " ">>
IsStructuredComment(s) == Len(s) >= 5 /\ SubSeq(s, 1, 5) = X2Marker

CommentTexts ==
    { <<" ", "#", "@", "!", " ", "T", "A", "*", "X", "*">>,
      <<" ", "#", "@", "!", " ", "T">>,
      <<" ", "#", "@", "!", "T", "A", "*">>,
      <<" ", "c">> }
\* the comment of the mixed command streams
StreamComment == <<" ", "#", "@", "!", " ", "T", "A", "*", "X", "*">>

SelectTexts ==
    { <<"D", "1", "0", "*">>, <<"D", "3", "*">> }

(***************************************************************************)
(* The caller's coordinate reads                                           *)
(***************************************************************************)
ReadXYCoord(p) ==
    /\ ~crashed
    /\ m_CurrentPos' = p
    /\ UNCHANGED <<m_PreviousPos, m_IJPos, m_LastCoordIsIJPos, modeVars,
                   toolVars, ioVars, m_Last_Pen_Command, m_Drawings, ret,
                   crashed>>

ReadIJCoord(p) ==
    /\ ~crashed
    /\ m_IJPos' = p
    /\ m_LastCoordIsIJPos' = TRUE
    /\ UNCHANGED <<m_CurrentPos, m_PreviousPos, modeVars, toolVars, ioVars,
                   m_Last_Pen_Command, m_Drawings, ret, crashed>>

(***************************************************************************)
(* Execute_G_Command                                                       *)
(***************************************************************************)
G_PhotoMode ==
    /\ ret' = TRUE
    /\ UNCHANGED <<posVars, modeVars, toolVars, ioVars, m_Last_Pen_Command,
                   m_Drawings, crashed>>

G_Interpolation(G_command) ==
    /\ m_Iterpolation' =
          CASE G_command = GC_LINEAR_INTERPOL_1X -> GERB_INTERPOL_LINEAR_1X
            [] G_command = GC_CIRCLE_NEG_INTERPOL -> GERB_INTERPOL_ARC_NEG
            [] G_command = GC_CIRCLE_POS_INTERPOL -> GERB_INTERPOL_ARC_POS
    /\ ret' = TRUE
    /\ UNCHANGED <<posVars, m_GerbMetric, m_Relative, m_360Arc_enbl,
                   m_PolygonFillMode, m_PolygonFillModeState, m_Exposure,
                   toolVars, ioVars, m_Last_Pen_Command, m_Drawings, crashed>>

\* G_Comment comparing the first four characters only
G_Comment_4chars(txt) ==
    /\ IF Len(txt) >= 4 /\ SubSeq(txt, 1, 4) = SubSeq(X2Marker, 1, 4)
       THEN /\ x2cmds' = Append(x2cmds, UpToStar(Drop(txt, 4)) \o <<"*", "%">>)
            /\ text' = SkipToStar(Drop(txt, 4))
       ELSE /\ x2cmds' = x2cmds
            /\ text' = SkipToStar(txt)
    /\ ret' = TRUE
    /\ UNCHANGED <<posVars, modeVars, toolVars, m_messages,
                   m_Last_Pen_Command, m_Drawings, crashed>>

G_Comment(txt) ==
    /\ IF IsStructuredComment(txt)
       THEN /\ x2cmds' = Append(x2cmds, UpToStar(Drop(txt, 5)) \o <<"*", "%">>)
            /\ text' = SkipToStar(Drop(txt, 5))
       ELSE /\ x2cmds' = x2cmds
            /\ text' = SkipToStar(txt)
    /\ ret' = TRUE
    /\ UNCHANGED <<posVars, modeVars, toolVars, m_messages,
                   m_Last_Pen_Command, m_Drawings, crashed>>

\* G_SelectTool without the clamp to the last tool slot
G_SelectTool_noclamp(txt) ==
    LET D_commande == DCodeNumber(txt)
    IN  /\ text' = DCodeNumberRest(txt)
        /\ IF D_commande < FIRST_DCODE
           THEN /\ ret' = FALSE
                /\ UNCHANGED toolVars
           ELSE /\ m_Current_Tool' = D_commande
                /\ m_InUse' = IF GetDCODE(D_commande) # NULL
                              THEN m_InUse \cup {D_commande} ELSE m_InUse
                /\ ret' = TRUE
        /\ UNCHANGED <<posVars, modeVars, m_messages, x2cmds,
                       m_Last_Pen_Command, m_Drawings, crashed>>

G_SelectTool(txt) ==
    LET D_commande == DCodeNumber(txt)
        clamped == IF D_commande > TOOLS_MAX_COUNT - 1
                   THEN TOOLS_MAX_COUNT - 1 ELSE D_commande
    IN  /\ text' = DCodeNumberRest(txt)
        /\ IF D_commande < FIRST_DCODE
           THEN /\ ret' = FALSE
                /\ UNCHANGED toolVars
           ELSE /\ m_Current_Tool' = clamped
                /\ m_InUse' = IF GetDCODE(clamped) # NULL
                              THEN m_InUse \cup {clamped} ELSE m_InUse
                /\ ret' = TRUE
        /\ UNCHANGED <<posVars, modeVars, m_messages, x2cmds,
                       m_Last_Pen_Command, m_Drawings, crashed>>

\* G_Units rescaling the end points of the items already drawn
G_Units_rescale(G_command) ==
    /\ m_GerbMetric' = (G_command = GC_SPECIFY_MILLIMETERS)
    /\ m_Drawings' = [i \in DOMAIN m_Drawings |->
                         [m_Drawings[i] EXCEPT !.m_End = <<@[1] * 2, @[2] * 2>>]]
    /\ ret' = TRUE
    /\ UNCHANGED <<posVars, m_Iterpolation, m_Relative, m_360Arc_enbl,
                   m_PolygonFillMode, m_PolygonFillModeState, m_Exposure,
                   toolVars, ioVars, m_Last_Pen_Command, crashed>>

G_Units(G_command) ==
    /\ m_GerbMetric' = (G_command = GC_SPECIFY_MILLIMETERS)
    /\ ret' = TRUE
    /\ UNCHANGED <<posVars, m_Iterpolation, m_Relative, m_360Arc_enbl,
                   m_PolygonFillMode, m_PolygonFillModeState, m_Exposure,
                   toolVars, ioVars, m_Last_Pen_Command, m_Drawings, crashed>>

G_TurnOff360 ==
    /\ m_360Arc_enbl' = FALSE
    /\ m_Iterpolation' = GERB_INTERPOL_LINEAR_1X
    /\ ret' = TRUE
    /\ UNCHANGED <<posVars, m_GerbMetric, m_Relative, m_PolygonFillMode,
                   m_PolygonFillModeState, m_Exposure, toolVars, ioVars,
                   m_Last_Pen_Command, m_Drawings, crashed>>

G_TurnOn360 ==
    /\ m_360Arc_enbl' = TRUE
    /\ ret' = TRUE
    /\ UNCHANGED <<posVars, m_Iterpolation, m_GerbMetric, m_Relative,
                   m_PolygonFillMode, m_PolygonFillModeState, m_Exposure,
                   toolVars, ioVars, m_Last_Pen_Command, m_Drawings, crashed>>

G_Addressing(G_command) ==
    /\ m_Relative' = (G_command = GC_SPECIFY_RELATIVEES_COORD)
    /\ ret' = TRUE
    /\ UNCHANGED <<posVars, m_Iterpolation, m_GerbMetric, m_360Arc_enbl,
                   m_PolygonFillMode, m_PolygonFillModeState, m_Exposure,
                   toolVars, ioVars, m_Last_Pen_Command, m_Drawings, crashed>>

\* G_TurnOnPolyFill leaving the exposure as it is
G_TurnOnPolyFill_keep ==
    /\ m_PolygonFillMode' = TRUE
    /\ ret' = TRUE
    /\ UNCHANGED <<posVars, m_Iterpolation, m_GerbMetric, m_Relative,
                   m_360Arc_enbl, m_PolygonFillModeState, m_Exposure,
                   toolVars, ioVars, m_Last_Pen_Command, m_Drawings, crashed>>

G_TurnOnPolyFill ==
    /\ m_PolygonFillMode' = TRUE
    /\ m_Exposure' = FALSE
    /\ ret' = TRUE
    /\ UNCHANGED <<posVars, m_Iterpolation, m_GerbMetric, m_Relative,
                   m_360Arc_enbl, m_PolygonFillModeState, toolVars, ioVars,
                   m_Last_Pen_Command, m_Drawings, crashed>>

\* what closing the last item can do: Vertex( 0 ) of an item without outline
\* reads outside the polygon set, which either kills the process or goes
\* unnoticed
CloseOutcomes ==
    IF m_Exposure /\ m_Drawings # <<>> /\ Last(m_Drawings).m_Polygon = <<>>
    THEN {"crash", "stray"} ELSE {"ok"}

\* the item list after "if( m_Exposure && GetItemsList() ) { close, repeat }"
ClosedDrawings(outcome) ==
    IF m_Exposure /\ m_Drawings # <<>>
    THEN IF outcome = "ok"
         THEN SetLast(m_Drawings, ClosePolygon(Last(m_Drawings)))
         ELSE SetLast(m_Drawings, StepAndRepeatItem(Last(m_Drawings)))
    ELSE m_Drawings

G_TurnOffPolyFill ==
    \E outcome \in CloseOutcomes :
        IF outcome = "crash"
        THEN /\ crashed' = TRUE
             /\ UNCHANGED <<posVars, modeVars, toolVars, ioVars,
                            m_Last_Pen_Command, m_Drawings, ret>>
        ELSE /\ m_Drawings' = ClosedDrawings(outcome)
             /\ m_Exposure' = FALSE
             /\ m_PolygonFillMode' = FALSE
             /\ m_PolygonFillModeState' = 0
             /\ m_Iterpolation' = GERB_INTERPOL_LINEAR_1X
             /\ ret' = TRUE
             /\ UNCHANGED <<posVars, m_GerbMetric, m_Relative, m_360Arc_enbl,
                            toolVars, ioVars, m_Last_Pen_Command, crashed>>

\* G_NotHandled taking G10 as a linear interpolation with a scale of 10
G_NotHandled_10x(G_command) ==
    IF G_command = GC_LINEAR_INTERPOL_10X
    THEN /\ m_Iterpolation' = "GERB_INTERPOL_LINEAR_10X"
         /\ ret' = TRUE
         /\ UNCHANGED <<posVars, m_GerbMetric, m_Relative, m_360Arc_enbl,
                        m_PolygonFillMode, m_PolygonFillModeState, m_Exposure,
                        toolVars, ioVars, m_Last_Pen_Command, m_Drawings,
                        crashed>>
    ELSE /\ m_messages' = Append(m_messages,
                                 <<"G command not handled", G_command>>)
         /\ ret' = FALSE
         /\ UNCHANGED <<posVars, modeVars, toolVars, text, x2cmds,
                        m_Last_Pen_Command, m_Drawings, crashed>>

\* G_NotHandled falling back to linear interpolation
G_NotHandled_linear(G_command) ==
    /\ m_messages' = Append(m_messages, <<"G command not handled", G_command>>)
    /\ m_Iterpolation' = GERB_INTERPOL_LINEAR_1X
    /\ ret' = FALSE
    /\ UNCHANGED <<posVars, m_GerbMetric, m_Relative, m_360Arc_enbl,
                   m_PolygonFillMode, m_PolygonFillModeState, m_Exposure,
                   toolVars, text, x2cmds, m_Last_Pen_Command, m_Drawings,
                   crashed>>

G_NotHandled(G_command) ==
    /\ m_messages' = Append(m_messages, <<"G command not handled", G_command>>)
    /\ ret' = FALSE
    /\ UNCHANGED <<posVars, modeVars, toolVars, text, x2cmds,
                   m_Last_Pen_Command, m_Drawings, crashed>>

Execute_G_Command(txt, G_command) ==
    /\ ~crashed
    /\ CASE G_command = GC_PHOTO_MODE -> G_PhotoMode
         [] G_command \in {GC_LINEAR_INTERPOL_1X, GC_CIRCLE_NEG_INTERPOL,
                           GC_CIRCLE_POS_INTERPOL} -> G_Interpolation(G_command)
         [] G_command = GC_COMMENT -> G_Comment(txt)
         [] G_command = GC_SELECT_TOOL -> G_SelectTool(txt)
         [] G_command \in {GC_SPECIFY_INCHES, GC_SPECIFY_MILLIMETERS} ->
                G_Units(G_command)
         [] G_command = GC_TURN_OFF_360_INTERPOL -> G_TurnOff360
         [] G_command = GC_TURN_ON_360_INTERPOL -> G_TurnOn360
         [] G_command \in {GC_SPECIFY_ABSOLUES_COORD,
                           GC_SPECIFY_RELATIVEES_COORD} -> G_Addressing(G_command)
         [] G_command = GC_TURN_ON_POLY_FILL -> G_TurnOnPolyFill
         [] G_command = GC_TURN_OFF_POLY_FILL -> G_TurnOffPolyFill
         [] OTHER -> G_NotHandled(G_command)


(***************************************************************************)
(* Execute_DCODE_Command                                                   *)
(***************************************************************************)
\* size, dcode and aperture as read from the selected tool, with the
\* defaults of the locals when the tool has no definition
\* ToolSize with an empty default size
ToolSize_zero == IF GetDCODE(m_Current_Tool) # NULL
                 THEN GetDCODE(m_Current_Tool).m_Size ELSE <<0, 0>>

ToolSize == IF GetDCODE(m_Current_Tool) # NULL
            THEN GetDCODE(m_Current_Tool).m_Size ELSE <<15, 15>>
ToolDcode == IF GetDCODE(m_Current_Tool) # NULL
             THEN GetDCODE(m_Current_Tool).m_Num_Dcode ELSE 0
ToolAperture == IF GetDCODE(m_Current_Tool) # NULL
                THEN GetDCODE(m_Current_Tool).m_Shape ELSE "APT_CIRCLE"

\* the aClockwise argument given to fillArcGBRITEM and fillArcPOLY
ArcClockwise == IF m_Iterpolation = GERB_INTERPOL_ARC_NEG THEN FALSE ELSE TRUE

IsArcMode == m_Iterpolation \in {GERB_INTERPOL_ARC_NEG, GERB_INTERPOL_ARC_POS}

\* D_SetTool without the clamp to the last tool slot
D_SetTool_noclamp(D_commande) ==
    /\ D_commande >= FIRST_DCODE
    /\ m_Current_Tool' = D_commande
    /\ m_InUse' = IF GetDCODE(D_commande) # NULL
                  THEN m_InUse \cup {D_commande} ELSE m_InUse
    /\ ret' = TRUE
    /\ UNCHANGED <<posVars, modeVars, ioVars, m_Last_Pen_Command,
                   m_Drawings, crashed>>

D_SetTool(D_commande) ==
    LET clamped == IF D_commande > TOOLS_MAX_COUNT - 1
                   THEN TOOLS_MAX_COUNT - 1 ELSE D_commande
    IN  /\ D_commande >= FIRST_DCODE
        /\ m_Current_Tool' = clamped
        /\ m_InUse' = IF GetDCODE(clamped) # NULL
                      THEN m_InUse \cup {clamped} ELSE m_InUse
        /\ ret' = TRUE
        /\ UNCHANGED <<posVars, modeVars, ioVars, m_Last_Pen_Command,
                       m_Drawings, crashed>>

\* PolyBase putting the new Region in front of the list
PolyBase_front ==
    IF ~m_Exposure
    THEN <<[NewItem EXCEPT !.m_Shape = "GBR_POLYGON", !.m_Flashed = FALSE,
                           !.m_DCode = 0]>> \o m_Drawings
    ELSE m_Drawings

\* the Region item that a polygon-mode D01 works on: the last item, a new
\* one being appended first when exposure is off
PolyBase ==
    IF ~m_Exposure
    THEN Append(m_Drawings, [NewItem EXCEPT !.m_Shape = "GBR_POLYGON",
                                            !.m_Flashed = FALSE,
                                            !.m_DCode = 0])
    ELSE m_Drawings

\* PolyLineTo without the previous position as vertex 0
PolyLineTo_noseed(gbritem) ==
    [gbritem EXCEPT
        !.m_Start = m_PreviousPos,
        !.m_End = m_CurrentPos,
        !.m_Polygon = Append(@, m_CurrentPos)]

\* the straight segment of a polygon-mode D01
PolyLineTo(gbritem) ==
    [gbritem EXCEPT
        !.m_Start = m_PreviousPos,
        !.m_End = m_CurrentPos,
        !.m_Polygon = IF @ = <<>> THEN <<m_PreviousPos, m_CurrentPos>>
                      ELSE Append(@, m_CurrentPos)]

\* D_Poly_D01 tessellating an arc only when the marker is set, and clearing it
D_Poly_D01_marker ==
    /\ m_PolygonFillMode
    /\ m_Last_Pen_Command' = 1
    /\ m_Exposure' = TRUE
    /\ m_Drawings' =
          LET base == PolyBase
              gbritem == Last(base)
          IN  SetLast(base,
                  IF IsArcMode /\ m_LastCoordIsIJPos
                  THEN fillArcPOLY(gbritem, m_PreviousPos, m_CurrentPos,
                                   m_IJPos, ArcClockwise, m_360Arc_enbl)
                  ELSE PolyLineTo(gbritem))
    /\ m_LastCoordIsIJPos' = FALSE
    /\ m_PreviousPos' = m_CurrentPos
    /\ m_PolygonFillModeState' = 1
    /\ ret' = TRUE
    /\ UNCHANGED <<m_CurrentPos, m_IJPos, m_Iterpolation,
                   m_GerbMetric, m_Relative, m_360Arc_enbl, m_PolygonFillMode,
                   toolVars, ioVars, crashed>>

D_Poly_D01 ==
    /\ m_PolygonFillMode
    /\ m_Last_Pen_Command' = 1
    /\ m_Exposure' = TRUE
    /\ m_Drawings' =
          LET base == PolyBase
              gbritem == Last(base)
          IN  SetLast(base,
                  IF IsArcMode
                  THEN fillArcPOLY(gbritem, m_PreviousPos, m_CurrentPos,
                                   m_IJPos, ArcClockwise, m_360Arc_enbl)
                  ELSE PolyLineTo(gbritem))
    /\ m_PreviousPos' = m_CurrentPos
    /\ m_PolygonFillModeState' = 1
    /\ ret' = TRUE
    /\ UNCHANGED <<m_CurrentPos, m_IJPos, m_LastCoordIsIJPos, m_Iterpolation,
                   m_GerbMetric, m_Relative, m_360Arc_enbl, m_PolygonFillMode,
                   toolVars, ioVars, crashed>>

\* D_Poly_D02 leaving the exposure on
D_Poly_D02_exposed ==
    /\ m_PolygonFillMode
    /\ m_Last_Pen_Command' = 2
    /\ m_Drawings' = ClosedDrawings("ok")
    /\ m_PreviousPos' = m_CurrentPos
    /\ m_PolygonFillModeState' = 0
    /\ ret' = TRUE
    /\ UNCHANGED <<m_CurrentPos, m_IJPos, m_LastCoordIsIJPos, m_Iterpolation,
                   m_GerbMetric, m_Relative, m_360Arc_enbl, m_PolygonFillMode,
                   m_Exposure, toolVars, ioVars, crashed>>

D_Poly_D02 ==
    /\ m_PolygonFillMode
    /\ \E outcome \in CloseOutcomes :
          IF outcome = "crash"
          THEN /\ crashed' = TRUE
               /\ m_Last_Pen_Command' = 2
               /\ UNCHANGED <<posVars, modeVars, m_Drawings, ret>>
          ELSE /\ m_Last_Pen_Command' = 2
               /\ m_Drawings' = ClosedDrawings(outcome)
               /\ m_Exposure' = FALSE
               /\ m_PreviousPos' = m_CurrentPos
               /\ m_PolygonFillModeState' = 0
               /\ ret' = TRUE
               /\ UNCHANGED <<m_CurrentPos, m_IJPos, m_LastCoordIsIJPos,
                              m_Iterpolation, m_GerbMetric, m_Relative,
                              m_360Arc_enbl, m_PolygonFillMode, crashed>>
    /\ UNCHANGED <<toolVars, ioVars>>

\* D_Fail leaving the switch with break
D_Fail_break(D_commande) ==
    /\ IF m_PolygonFillMode THEN D_commande \notin {1, 2}
                            ELSE D_commande \notin {1, 2, 3}
    /\ m_Last_Pen_Command' = D_commande
    /\ ret' = TRUE
    /\ UNCHANGED <<posVars, modeVars, toolVars, ioVars, m_Drawings, crashed>>

\* a pen code that the active sub-machine has no case for
D_Fail(D_commande) ==
    /\ IF m_PolygonFillMode THEN D_commande \notin {1, 2}
                            ELSE D_commande \notin {1, 2, 3}
    /\ m_Last_Pen_Command' = D_commande
    /\ ret' = FALSE
    /\ UNCHANGED <<posVars, modeVars, toolVars, ioVars, m_Drawings, crashed>>

\* DrawnItem building an Arc in the arc modes whatever the marker says
DrawnItem_arc ==
    IF m_Iterpolation = GERB_INTERPOL_LINEAR_1X
    THEN <<StepAndRepeatItem(
             fillLineGBRITEM(NewItem, ToolDcode, m_PreviousPos, m_CurrentPos,
                             ToolSize))>>
    ELSE IF IsArcMode
    THEN <<StepAndRepeatItem(
             fillArcGBRITEM(NewItem, ToolDcode, m_PreviousPos, m_CurrentPos,
                            m_IJPos, ToolSize, ArcClockwise, m_360Arc_enbl))>>
    ELSE <<>>

\* the item a normal-mode D01 appends; none when the interpolation mode is
\* neither linear nor an arc mode
DrawnItem ==
    IF m_Iterpolation = GERB_INTERPOL_LINEAR_1X
    THEN <<StepAndRepeatItem(
             fillLineGBRITEM(NewItem, ToolDcode, m_PreviousPos, m_CurrentPos,
                             ToolSize))>>
    ELSE IF IsArcMode
    THEN <<StepAndRepeatItem(
             IF m_LastCoordIsIJPos
             THEN fillArcGBRITEM(NewItem, ToolDcode, m_PreviousPos,
                                 m_CurrentPos, m_IJPos, ToolSize, ArcClockwise,
                                 m_360Arc_enbl)
             ELSE fillLineGBRITEM(NewItem, ToolDcode, m_PreviousPos,
                                  m_CurrentPos, ToolSize))>>
    ELSE <<>>

D_Normal_D01 ==
    /\ ~m_PolygonFillMode
    /\ m_Last_Pen_Command' = 1
    /\ m_Exposure' = TRUE
    /\ m_Drawings' = m_Drawings \o DrawnItem
    /\ m_LastCoordIsIJPos' = IF IsArcMode THEN FALSE ELSE m_LastCoordIsIJPos
    /\ m_messages' = IF DrawnItem = <<>>
                     THEN Append(m_messages,
                                 <<"DCODE Command: interpol error", m_Iterpolation>>)
                     ELSE m_messages
    /\ m_PreviousPos' = m_CurrentPos
    /\ ret' = TRUE
    /\ UNCHANGED <<m_CurrentPos, m_IJPos, m_Iterpolation, m_GerbMetric,
                   m_Relative, m_360Arc_enbl, m_PolygonFillMode,
                   m_PolygonFillModeState, toolVars, text, x2cmds, crashed>>

D_Normal_D02 ==
    /\ ~m_PolygonFillMode
    /\ m_Last_Pen_Command' = 2
    /\ m_Exposure' = FALSE
    /\ m_PreviousPos' = m_CurrentPos
    /\ ret' = TRUE
    /\ UNCHANGED <<m_CurrentPos, m_IJPos, m_LastCoordIsIJPos, m_Iterpolation,
                   m_GerbMetric, m_Relative, m_360Arc_enbl, m_PolygonFillMode,
                   m_PolygonFillModeState, toolVars, ioVars, m_Drawings,
                   crashed>>

D_Normal_D03 ==
    /\ ~m_PolygonFillMode
    /\ m_Last_Pen_Command' = 3
    /\ m_Drawings' = Append(m_Drawings,
          StepAndRepeatItem(fillFlashedGBRITEM(NewItem, ToolAperture,
                                               ToolDcode, m_CurrentPos,
                                               ToolSize)))
    /\ m_PreviousPos' = m_CurrentPos
    /\ ret' = TRUE
    /\ UNCHANGED <<m_CurrentPos, m_IJPos, m_LastCoordIsIJPos, modeVars,
                   toolVars, ioVars, crashed>>

Execute_DCODE_Command(D_commande) ==
    /\ ~crashed
    /\ IF D_commande >= FIRST_DCODE THEN D_SetTool(D_commande)
       ELSE IF m_PolygonFillMode
       THEN CASE D_commande = 1 -> D_Poly_D01
              [] D_commande = 2 -> D_Poly_D02
              [] OTHER -> D_Fail(D_commande)
       ELSE CASE D_commande = 1 -> D_Normal_D01
              [] D_commande = 2 -> D_Normal_D02
              [] D_commande = 3 -> D_Normal_D03
              [] OTHER -> D_Fail(D_commande)

(***************************************************************************)
(* Specification                                                           *)
(***************************************************************************)
GCodes ==
    {GC_LINEAR_INTERPOL_1X, GC_CIRCLE_NEG_INTERPOL, GC_CIRCLE_POS_INTERPOL,
     GC_TURN_ON_POLY_FILL, GC_TURN_OFF_POLY_FILL, GC_PHOTO_MODE,
     GC_SPECIFY_INCHES, GC_SPECIFY_MILLIMETERS, GC_TURN_OFF_360_INTERPOL,
     GC_TURN_ON_360_INTERPOL, GC_SPECIFY_ABSOLUES_COORD,
     GC_SPECIFY_RELATIVEES_COORD} \cup UnknownGCodes

\* one more command of the input stream
Count ==
    /\ nCmds < MaxCmds
    /\ nCmds' = nCmds + 1

XYCoord == (\E p \in Points : ReadXYCoord(p)) /\ UNCHANGED <<nCmds, mon, call>>
IJCoord == (\E p \in IJValues : ReadIJCoord(p)) /\ UNCHANGED <<nCmds, mon, call>>
GCommand ==
    /\ \E g \in GCodes : Execute_G_Command(<<"*">>, g)
    /\ Count
    /\ UNCHANGED <<mon, call>>
GComment ==
    /\ Execute_G_Command(StreamComment, GC_COMMENT)
    /\ Count
    /\ UNCHANGED <<mon, call>>
GSelect ==
    /\ \E t \in SelectTexts : Execute_G_Command(t, GC_SELECT_TOOL)
    /\ Count
    /\ UNCHANGED <<mon, call>>
DCommand ==
    /\ \E d \in PenCodes \cup ToolCodes : Execute_DCODE_Command(d)
    /\ Count
    /\ UNCHANGED <<mon, call>>

Next == XYCoord \/ IJCoord \/ GCommand \/ GComment \/ GSelect \/ DCommand

Spec == Init /\ [][Next]_vars

(***************************************************************************)
(* Streams of region commands.  mon follows the pattern                    *)
(*   G36, D02 to p0, D01 to p1, ..., D01 to pn, G37                        *)
(* with linear interpolation: phase is the last command of the pattern     *)
(* seen, base the length of the item list at G36, pts the points p0..pn.   *)
(***************************************************************************)
MonNone == [phase |-> "none", base |-> 0, pts |-> <<>>]

CountRegion ==
    /\ nCmds < MaxRegionCmds
    /\ nCmds' = nCmds + 1

RegionXY == (\E p \in RegionPoints : ReadXYCoord(p)) /\ UNCHANGED <<nCmds, mon, call>>

RegionG36 ==
    /\ Execute_G_Command(<<"*">>, GC_TURN_ON_POLY_FILL)
    /\ CountRegion
    /\ mon' = IF m_Iterpolation = GERB_INTERPOL_LINEAR_1X
              THEN [phase |-> "G36", base |-> Len(m_Drawings), pts |-> <<>>]
              ELSE MonNone
    /\ UNCHANGED call

RegionD02 ==
    /\ Execute_DCODE_Command(2)
    /\ CountRegion
    /\ mon' = IF mon.phase = "G36"
              THEN [mon EXCEPT !.phase = "D02", !.pts = <<m_CurrentPos>>]
              ELSE MonNone
    /\ UNCHANGED call

RegionD01 ==
    /\ Execute_DCODE_Command(1)
    /\ CountRegion
    /\ mon' = IF mon.phase \in {"D02", "D01"}
              THEN [mon EXCEPT !.phase = "D01",
                               !.pts = Append(@, m_CurrentPos)]
              ELSE MonNone
    /\ UNCHANGED call

RegionG37 ==
    /\ Execute_G_Command(<<"*">>, GC_TURN_OFF_POLY_FILL)
    /\ CountRegion
    /\ mon' = IF mon.phase = "D01" THEN [mon EXCEPT !.phase = "G37"]
              ELSE MonNone
    /\ UNCHANGED call

RegionInterpol ==
    /\ \E g \in {GC_LINEAR_INTERPOL_1X, GC_CIRCLE_NEG_INTERPOL} :
          Execute_G_Command(<<"*">>, g)
    /\ CountRegion
    /\ mon' = MonNone
    /\ UNCHANGED call

NextRegion ==
    RegionXY \/ RegionG36 \/ RegionD02 \/ RegionD01 \/ RegionG37
    \/ RegionInterpol

SpecRegion == Init /\ [][NextRegion]_vars


(***************************************************************************)
(* Streams of tool selections, moves and flashes                           *)
(***************************************************************************)
FlashTools == (DOMAIN Apertures) \cup {TOOLS_MAX_COUNT + 5}

CountFlash ==
    /\ nCmds < MaxFlashCmds
    /\ nCmds' = nCmds + 1

FlashXY == (\E p \in Points : ReadXYCoord(p)) /\ UNCHANGED <<nCmds, mon, call>>

FlashSelect ==
    /\ \E n \in FlashTools : Execute_DCODE_Command(n)
    /\ CountFlash
    /\ UNCHANGED <<mon, call>>

FlashD03 ==
    /\ Execute_DCODE_Command(3)
    /\ CountFlash
    /\ UNCHANGED <<mon, call>>

NextFlash == FlashXY \/ FlashSelect \/ FlashD03

SpecFlash == Init /\ [][NextFlash]_vars

(***************************************************************************)
(* Streams of comments, moves and draws                                    *)
(***************************************************************************)
CountComment ==
    /\ nCmds < MaxCommentCmds
    /\ nCmds' = nCmds + 1

CommentXY == (\E p \in Points : ReadXYCoord(p)) /\ UNCHANGED <<nCmds, mon, call>>

CommentG04 ==
    /\ \E t \in CommentTexts : Execute_G_Command(t, GC_COMMENT)
    /\ CountComment
    /\ UNCHANGED <<mon, call>>

CommentD01 ==
    /\ Execute_DCODE_Command(1)
    /\ CountComment
    /\ UNCHANGED <<mon, call>>

CommentG36 ==
    /\ Execute_G_Command(<<"*">>, GC_TURN_ON_POLY_FILL)
    /\ CountComment
    /\ UNCHANGED <<mon, call>>

NextComment == CommentXY \/ CommentG04 \/ CommentD01 \/ CommentG36

SpecComment == Init /\ [][NextComment]_vars

(***************************************************************************)
(* Streams of tool selections by G54 and by D-command, and flashes         *)
(***************************************************************************)
\* the texts after G54, each with the number written in it
SelectCases ==
    { << <<"D", "1", "0", "*">>, 10 >>,
      << <<"D", "0", "1", "1", "*">>, 11 >>,
      << <<"D", "3", "*">>, 3 >>,
      << <<"D", "9", "9", "9", "*">>, 999 >>,
      << <<"D", "1", "0", "0", "5", "*">>, 1005 >> }

CountSelect ==
    /\ nCmds < MaxSelectCmds
    /\ nCmds' = nCmds + 1

SelectG54 ==
    /\ \E c \in SelectCases : Execute_G_Command(c[1], GC_SELECT_TOOL)
    /\ CountSelect
    /\ UNCHANGED <<mon, call>>

SelectD ==
    /\ \E c \in SelectCases : Execute_DCODE_Command(c[2])
    /\ CountSelect
    /\ UNCHANGED <<mon, call>>

NextSelect == SelectG54 \/ SelectD

SpecSelect == Init /\ [][NextSelect]_vars

(***************************************************************************)
(* Calls of the arc builders on their own: the arguments are drawn from    *)
(* small sets, then one of the two functions is applied to the item.       *)
(***************************************************************************)
ArcStarts == {<<0, 0>>, <<5, -5>>}
ArcDeltas == {-15, -10, -5, 0, 5, 10, 15}
ArcCenters == {-5, 0, 5, 10}
ArcOutlines == {<<>>, << <<0, 0>> >>}

ArcArgs ==
    [fn : {"args"}, aStart : ArcStarts,
     aEnd : {<<0, 0>>},
     aRelCenter : ArcCenters \X ArcCenters,
     aClockwise : BOOLEAN, aMultiquadrant : BOOLEAN,
     before : {NewItem}, item : {NewItem}]

\* the start and end points relative to the centre are within ArcTanTable
InTable(a) ==
    LET center == ArcCenter(a.aStart, a.aEnd, a.aRelCenter, a.aClockwise,
                            a.aMultiquadrant)
        s == PSub(a.aStart, center)
        e == PSub(a.aEnd, center)
    IN  \A v \in {s[1], s[2], e[1], e[2]} : Abs(v) <= 20

InitArc ==
    /\ ResetDefaultValues
    /\ nCmds = 0
    /\ mon = MonNone
    /\ \E a \in ArcArgs, dx \in ArcDeltas, dy \in ArcDeltas,
          o \in ArcOutlines :
          /\ call = [a EXCEPT !.aEnd = PAdd(a.aStart, <<dx, dy>>),
                              !.item = [NewItem EXCEPT !.m_Polygon = o]]
          /\ InTable(call)

\* fillArcGBRITEM( item, 10, aStart, aEnd, aRelCenter, wxSize( 20, 20 ), .. )
CallArcGBRITEM ==
    /\ call.fn = "args"
    /\ call' = [call EXCEPT
                  !.fn = "fillArcGBRITEM", !.before = call.item,
                  !.item = fillArcGBRITEM(call.item, 10, call.aStart,
                               call.aEnd, call.aRelCenter, <<20, 20>>,
                               call.aClockwise, call.aMultiquadrant)]
    /\ UNCHANGED <<progVars, nCmds, mon>>

\* fillArcPOLY( item, aStart, aEnd, aRelCenter, aClockwise, aMultiquadrant )
CallArcPOLY ==
    /\ call.fn = "args"
    /\ call' = [call EXCEPT
                  !.fn = "fillArcPOLY", !.before = call.item,
                  !.item = fillArcPOLY(call.item, call.aStart, call.aEnd,
                               call.aRelCenter, call.aClockwise,
                               call.aMultiquadrant)]
    /\ UNCHANGED <<progVars, nCmds, mon>>

NextArc == CallArcGBRITEM \/ CallArcPOLY

SpecArc == InitArc /\ [][NextArc]_vars


(***************************************************************************)
(* Properties                                                              *)
(***************************************************************************)
Region(it) == it.m_Shape = "GBR_POLYGON"
\* a Region is closed by the command that hands it to step-and-repeat
ClosedRegion(it) == Region(it) /\ it.sr >= 1
Line(it) == it.m_Shape = "GBR_SEGMENT" /\ ~it.m_Flashed /\ it.m_Polygon = <<>>
NoStar == <<"*">>
OneMoreItem ==
    /\ Len(m_Drawings') = Len(m_Drawings) + 1
    /\ SubSeq(m_Drawings', 1, Len(m_Drawings)) = m_Drawings

\* C1: with polygon-fill off and linear interpolation a D01 appends exactly
\* one Line from the previous to the current position, handed once to
\* step-and-repeat, sets exposure on and leaves previous = current position;
\* a normal-mode D02 appends nothing and sets previous = current position.
C1_LinearDraw ==
    [][ /\ ( /\ ~m_PolygonFillMode
             /\ m_Iterpolation = GERB_INTERPOL_LINEAR_1X
             /\ Execute_DCODE_Command(1) )
           => /\ OneMoreItem
              /\ Line(Last(m_Drawings'))
              /\ Last(m_Drawings').m_Start = m_PreviousPos
              /\ Last(m_Drawings').m_End = m_CurrentPos
              /\ Last(m_Drawings').sr = 1
              /\ m_Exposure'
              /\ m_PreviousPos' = m_CurrentPos
              /\ m_CurrentPos' = m_CurrentPos
              /\ ret'
        /\ (~m_PolygonFillMode /\ Execute_DCODE_Command(2))
           => /\ m_Drawings' = m_Drawings
              /\ m_PreviousPos' = m_CurrentPos
              /\ m_CurrentPos' = m_CurrentPos
              /\ ~m_Exposure'
              /\ ret'
              /\ UNCHANGED <<m_IJPos, m_LastCoordIsIJPos, m_Iterpolation,
                             m_GerbMetric, m_Relative, m_360Arc_enbl,
                             m_PolygonFillMode, m_PolygonFillModeState,
                             toolVars, ioVars>>
      ]_vars

\* the end-to-end case: G01, D02 at (0,0), D01 at (10,0)
C1_Witness ==
    /\ nCmds = 3
    /\ Len(m_Drawings) = 1
    /\ Line(m_Drawings[1])
    /\ m_Drawings[1].m_Start = <<0, 0>>
    /\ m_Drawings[1].m_End = <<10, 0>>
    /\ m_Drawings[1].sr = 1
    /\ m_Exposure
    /\ m_Last_Pen_Command = 1
    /\ m_PreviousPos = <<10, 0>>
    /\ m_Iterpolation = GERB_INTERPOL_LINEAR_1X

\* C2: G36, D02 to p0, D01 to p1, ..., D01 to pn, G37 with linear
\* interpolation appends exactly one Region, of outline [p0, p1, ..., pn, p0].
C2_RegionOutline ==
    mon.phase = "G37" =>
        /\ ~crashed
        /\ Len(m_Drawings) = mon.base + 1
        /\ Region(Last(m_Drawings))
        /\ Last(m_Drawings).m_Polygon = mon.pts \o <<mon.pts[1]>>

C2_Witness ==
    /\ mon.phase = "G37"
    /\ mon.pts = << <<0, 0>>, <<10, 0>>, <<10, 10>> >>
    /\ Len(m_Drawings) = 1
    /\ m_Drawings[1].m_Polygon = << <<0, 0>>, <<10, 0>>, <<10, 10>>, <<0, 0>> >>

\* C3: a closed Region has an outline whose first and last vertex are equal,
\* and no later command changes the outline of a closed Region.
C3_ClosedRegions ==
    [][ /\ \A i \in 1..Len(m_Drawings') :
              ClosedRegion(m_Drawings'[i]) =>
                  LET o == m_Drawings'[i].m_Polygon
                  IN  o # <<>> /\ o[1] = o[Len(o)]
        /\ \A i \in 1..Len(m_Drawings) :
              ClosedRegion(m_Drawings[i]) =>
                  /\ i <= Len(m_Drawings')
                  /\ m_Drawings'[i].m_Polygon = m_Drawings[i].m_Polygon
      ]_vars

\* a closed Region followed by an item that a later command made
C3_Witness ==
    /\ Len(m_Drawings) >= 2
    /\ ClosedRegion(m_Drawings[1])
    /\ Len(m_Drawings[1].m_Polygon) >= 3

\* C4: the item list only grows at its end: no command removes or reorders
\* items, and a command changes no item but the last one of the list.
C4_AppendOnly ==
    [][ /\ Len(m_Drawings') \in {Len(m_Drawings), Len(m_Drawings) + 1}
        /\ \A i \in 1..(Len(m_Drawings) - 1) : m_Drawings'[i] = m_Drawings[i]
        /\ Len(m_Drawings') = Len(m_Drawings) + 1 =>
              SubSeq(m_Drawings', 1, Len(m_Drawings)) = m_Drawings
      ]_vars

\* a Region, the second item of the list, extended by a second D01
C4_Witness ==
    /\ Len(m_Drawings) = 2
    /\ Region(m_Drawings[2])
    /\ Len(m_Drawings[2].m_Polygon) >= 3
    /\ m_Drawings[2].sr = 0

\* C5: a G-code that is not recognised (G00 included) returns failure, adds
\* one message and changes nothing else of the interpreter.
C5_UnknownGCode ==
    [][ \A g \in UnknownGCodes :
           Execute_G_Command(NoStar, g) =>
              /\ ret' = FALSE
              /\ Len(m_messages') = Len(m_messages) + 1
              /\ SubSeq(m_messages', 1, Len(m_messages)) = m_messages
              /\ ~crashed'
              /\ UNCHANGED <<posVars, modeVars, toolVars, text, x2cmds,
                             m_Last_Pen_Command, m_Drawings>>
      ]_vars

\* G00 was refused after an item had been drawn
C5_Witness ==
    /\ m_messages # <<>>
    /\ m_messages[1][2] = GC_MOVE
    /\ ret = FALSE
    /\ m_Drawings # <<>>

\* C6: a command that returns failure leaves every field of the interpreter
\* state and the item list as they were.
C6_Atomic ==
    [][ (nCmds' = nCmds + 1 /\ ret' = FALSE /\ ~crashed') =>
            UNCHANGED <<posVars, modeVars, toolVars, m_Last_Pen_Command,
                        m_Drawings>>
      ]_vars

\* C7: G37 closes the open region (first vertex appended, handed once to
\* step-and-repeat) and in every case ends with polygon-fill off, exposure
\* off, linear interpolation, returning success.
C7_ExitPolyFill ==
    [][ Execute_G_Command(NoStar, GC_TURN_OFF_POLY_FILL) =>
           /\ ( m_Exposure /\ m_Drawings # <<>> /\ Region(Last(m_Drawings)) ) =>
                 /\ Len(m_Drawings') = Len(m_Drawings)
                 /\ Last(m_Drawings').m_Polygon =
                       Append(Last(m_Drawings).m_Polygon,
                              Last(m_Drawings).m_Polygon[1])
                 /\ Last(m_Drawings').sr = Last(m_Drawings).sr + 1
           /\ ~m_PolygonFillMode'
           /\ ~m_Exposure'
           /\ m_Iterpolation' = GERB_INTERPOL_LINEAR_1X
           /\ ret' = TRUE
           /\ ~crashed'
      ]_vars

\* C8: a D-command n >= FIRST_DCODE succeeds, selects tool
\* min(n, TOOLS_MAX_COUNT-1), marks its aperture in use when there is one and
\* changes nothing else; the selected tool never exceeds TOOLS_MAX_COUNT-1.
C8_SelectTool ==
    [][ /\ \A n \in ToolCodes :
              Execute_DCODE_Command(n) =>
                 LET t == IF n < TOOLS_MAX_COUNT - 1 THEN n
                          ELSE TOOLS_MAX_COUNT - 1
                 IN  /\ ret' = TRUE
                     /\ m_Current_Tool' = t
                     /\ m_InUse' = m_InUse \cup ({t} \cap DOMAIN Apertures)
                     /\ UNCHANGED <<posVars, modeVars, ioVars,
                                    m_Last_Pen_Command, m_Drawings, crashed>>
        /\ m_Current_Tool' <= TOOLS_MAX_COUNT - 1
      ]_vars

\* a code above the last tool slot was selected
C8_Witness ==
    /\ m_Current_Tool = TOOLS_MAX_COUNT - 1
    /\ ret = TRUE

\* C9: with no aperture defined for the selected tool a normal-mode D01 or
\* D03 succeeds and appends its item with size 15x15, D-code 0 and, for a
\* flash, the circle shape.
C9_AbsentAperture ==
    [][ \A d \in {1, 3} :
           ( /\ ~m_PolygonFillMode
             /\ m_Current_Tool \notin DOMAIN Apertures
             /\ Execute_DCODE_Command(d) )
           => /\ ret' = TRUE
              /\ ~crashed'
              /\ OneMoreItem
              /\ Last(m_Drawings').m_Size = <<15, 15>>
              /\ Last(m_Drawings').m_DCode = 0
              /\ Last(m_Drawings').sr = 1
              /\ d = 3 => /\ Last(m_Drawings').m_Shape = "GBR_SPOT_CIRCLE"
                          /\ Last(m_Drawings').m_Flashed
      ]_vars

\* a flash and a stroke made while the selected tool D999 has no aperture
C9_Witness ==
    /\ m_Current_Tool = TOOLS_MAX_COUNT - 1
    /\ Len(m_Drawings) = 2
    /\ \A i \in 1..2 : /\ m_Drawings[i].m_Size = <<15, 15>>
                       /\ m_Drawings[i].m_DCode = 0
    /\ \E i \in 1..2 : m_Drawings[i].m_Shape = "GBR_SPOT_CIRCLE"
    /\ \E i \in 1..2 : Line(m_Drawings[i])

\* C10: G70 and G71 change the units flag only: items, positions and the
\* other mode flags stay as they are.
C10_UnitsOnly ==
    [][ \A g \in {GC_SPECIFY_INCHES, GC_SPECIFY_MILLIMETERS} :
           Execute_G_Command(NoStar, g) =>
              /\ m_GerbMetric' = (g = GC_SPECIFY_MILLIMETERS)
              /\ UNCHANGED <<posVars, m_Iterpolation, m_Relative,
                             m_360Arc_enbl, m_PolygonFillMode,
                             m_PolygonFillModeState, m_Exposure, toolVars,
                             ioVars, m_Last_Pen_Command, m_Drawings, crashed>>
      ]_vars

\* millimetres selected in a state that holds a stroke and an open Region
C10_Witness ==
    /\ m_GerbMetric
    /\ Len(m_Drawings) = 2
    /\ Line(m_Drawings[1])
    /\ Region(m_Drawings[2])
    /\ m_PolygonFillMode

(***************************************************************************)
(* The arc builders called on their own (SpecArc)                          *)
(***************************************************************************)
Resolved == call.fn = "fillArcGBRITEM"
Tessellated == call.fn = "fillArcPOLY"

\* C11: the arc resolver called with aClockwise = true and aMultiquadrant =
\* false on start (0,0), end (10,0), relative centre (5,0) gives the centre
\* (5,0).
C11_CenterOnAxis ==
    ( /\ Resolved
      /\ call.aStart = <<0, 0>> /\ call.aEnd = <<10, 0>>
      /\ call.aRelCenter = <<5, 0>>
      /\ call.aClockwise /\ ~call.aMultiquadrant )
    => call.item.m_ArcCentre = <<5, 0>>

C12_Case ==
    /\ Resolved
    /\ call.aStart = <<0, 0>> /\ call.aEnd = <<0, 10>>
    /\ call.aRelCenter = <<5, 5>>
    /\ call.aClockwise /\ ~call.aMultiquadrant

\* C12 as stated: the single-quadrant clockwise arc with start (0,0), end
\* (0,10), relative centre (5,5) gets the relative centre (-5,5) and the
\* absolute centre (-5,10).
C12_CenterAsStated ==
    C12_Case =>
        /\ QuadrantCenter(call.aStart, call.aEnd, call.aRelCenter) = <<-5, 5>>
        /\ call.item.m_ArcCentre = <<-5, 10>>

\* C12 amended: the single-quadrant clockwise arc with start (0,0), end
\* (0,10), relative centre (5,5) gets the absolute centre (-5,5), which is
\* the start plus the relative centre (-5,5).
C12_Center ==
    C12_Case =>
        /\ PSub(call.item.m_ArcCentre, call.aStart) = <<-5, 5>>
        /\ call.item.m_ArcCentre = <<-5, 5>>

C12_Witness == C12_Case /\ call.item.m_ArcCentre = <<-5, 5>>

\* C13: the arc resolver gives, in multiquadrant mode, centre = start + c;
\* in single-quadrant mode centre = start + s*q(c), q negating c.x when
\* dx >= 0 and dy >= 0, nothing when dx >= 0 and dy < 0, both when dx < 0
\* and dy >= 0, c.y when dx < 0 and dy < 0, and s = -1 exactly when the arc
\* is counter-clockwise; the item's (start, end) is (start, end) when
\* clockwise and (end, start) when counter-clockwise.
C13_Resolver ==
    Resolved =>
        LET c == call.aRelCenter
            dx == call.aEnd[1] - call.aStart[1]
            dy == call.aEnd[2] - call.aStart[2]
            qx == IF dy >= 0 THEN -c[1] ELSE c[1]
            qy == IF dx < 0 THEN -c[2] ELSE c[2]
            sg == IF call.aClockwise THEN 1 ELSE -1
        IN  /\ call.aMultiquadrant =>
                call.item.m_ArcCentre =
                    <<call.aStart[1] + c[1], call.aStart[2] + c[2]>>
            /\ ~call.aMultiquadrant =>
                call.item.m_ArcCentre =
                    <<call.aStart[1] + sg * qx, call.aStart[2] + sg * qy>>
            /\ call.aClockwise =>
                /\ call.item.m_Start = call.aStart
                /\ call.item.m_End = call.aEnd
            /\ ~call.aClockwise =>
                /\ call.item.m_Start = call.aEnd
                /\ call.item.m_End = call.aStart

\* a counter-clockwise single-quadrant call in the quadrant dx < 0, dy < 0
C13_Witness ==
    /\ Resolved
    /\ ~call.aClockwise /\ ~call.aMultiquadrant
    /\ call.aStart = <<5, -5>> /\ call.aEnd = <<-5, -10>>
    /\ call.aRelCenter = <<5, 10>>
    /\ call.item.m_ArcCentre = <<0, 5>>
    /\ call.item.m_Start = <<-5, -10>>

\* C14: fillArcPOLY appends floor(|a - b| / 100) + 1 vertices, a and b the
\* start and end angles in 0.1 degree (b increased by 3600 when a > b), so
\* that a 90 degree arc gets 9 interpolated segments, and the last vertex
\* appended is the arc's end point.
C14_Tessellation ==
    Tessellated =>
        LET center == ArcCenter(call.aStart, call.aEnd, call.aRelCenter,
                                call.aClockwise, call.aMultiquadrant)
            from == IF call.aClockwise THEN call.aStart ELSE call.aEnd
            to == IF call.aClockwise THEN call.aEnd ELSE call.aStart
            a == ArcTangente(from[2] - center[2], from[1] - center[1])
            b0 == ArcTangente(to[2] - center[2], to[1] - center[1])
            b == IF a > b0 THEN b0 + 3600000 ELSE b0
            steps == Abs(a - b) \div 100000
            old == call.before.m_Polygon
            new == call.item.m_Polygon
        IN  /\ Len(new) = Len(old) + steps + 1
            /\ SubSeq(new, 1, Len(old)) = old
            /\ new[Len(new)] = call.aEnd
            /\ Abs(a - b) = 900000 => Len(new) = Len(old) + 10

\* the index of the first "*" of s at or after index from, Len(s) + 1 when
\* there is none
FirstStar(s, from) ==
    IF \E i \in from..Len(s) : s[i] = "*"
    THEN CHOOSE i \in from..Len(s) :
            s[i] = "*" /\ \A j \in from..(i - 1) : s[j] # "*"
    ELSE Len(s) + 1

\* C15: a G04 whose text begins with the 5 characters " #@! " gives the
\* characters after the marker up to the next "*" (or the end of the line),
\* followed by "*%", once to the metadata-command executor; any other G04
\* gives it nothing.  In both cases the command succeeds, the cursor is on
\* the first "*" after the comment (or at the end of the line) and no item,
\* position, mode flag, tool or message is changed.
C15_Comment ==
    [][ \A t \in CommentTexts :
          Execute_G_Command(t, GC_COMMENT) =>
            LET marked == Len(t) >= 5 /\ t[1] = " " /\ t[2] = "#"
                          /\ t[3] = "@" /\ t[4] = "!" /\ t[5] = " "
                star == FirstStar(t, IF marked THEN 6 ELSE 1)
            IN  /\ marked =>
                    x2cmds' = x2cmds \o
                        << SubSeq(t, 6, star - 1) \o <<"*", "%">> >>
                /\ ~marked => x2cmds' = x2cmds
                /\ ret'
                /\ text' = SubSeq(t, star, Len(t))
                /\ UNCHANGED <<posVars, modeVars, toolVars, m_messages,
                               m_Drawings, crashed>>
      ]_vars

\* a structured comment has been dispatched and the cursor is on its "*"
C15_Witness ==
    /\ x2cmds = << <<"T", "A", "*", "%">> >>
    /\ text = <<"*", "X", "*">>
    /\ ret

\* the spot shape of an aperture shape
SpotShape(aperture) ==
    CASE aperture = "APT_CIRCLE" -> "GBR_SPOT_CIRCLE"
      [] aperture = "APT_OVAL" -> "GBR_SPOT_OVAL"
      [] aperture = "APT_RECT" -> "GBR_SPOT_RECT"
      [] aperture = "APT_POLYGON" -> "GBR_SPOT_POLY"
      [] aperture = "APT_MACRO" -> "GBR_SPOT_MACRO"

\* C16: with polygon-fill off a D03 appends exactly one Flash item with
\* start = end = the current position, the D-code and size of the selected
\* tool's aperture (D-code 0 and 15x15 as a circle when the tool has none)
\* and the spot shape of the aperture shape; the size of a circle's flash
\* has y equal to x; the item has been handed to step-and-repeat once and the
\* previous position becomes the current position.
C16_Flash ==
    [][ (Execute_DCODE_Command(3) /\ ~m_PolygonFillMode) =>
          LET it == Last(m_Drawings')
              tool == GetDCODE(m_Current_Tool)
              shape == IF tool = NULL THEN "APT_CIRCLE" ELSE tool.m_Shape
              size == IF tool = NULL THEN <<15, 15>> ELSE tool.m_Size
          IN  /\ OneMoreItem
              /\ it.m_Flashed
              /\ it.m_Start = m_CurrentPos /\ it.m_End = m_CurrentPos
              /\ it.m_DCode = IF tool = NULL THEN 0 ELSE tool.m_Num_Dcode
              /\ it.m_Shape = SpotShape(shape)
              /\ it.m_Size[1] = size[1]
              /\ it.m_Size[2] = IF shape = "APT_CIRCLE" THEN size[1]
                                ELSE size[2]
              /\ it.sr = 1
              /\ it.m_Polygon = <<>>
              /\ m_PreviousPos' = m_CurrentPos
              /\ ret'
      ]_vars

\* a circle given as 20x10 has been flashed as 20x20, and a rectangle as given
C16_Witness ==
    /\ Len(m_Drawings) = 2
    /\ m_Drawings[1].m_Shape = "GBR_SPOT_CIRCLE"
    /\ m_Drawings[1].m_Size = <<20, 20>>
    /\ m_Drawings[1].m_DCode = 10
    /\ m_Drawings[1].m_Start = <<10, 0>>
    /\ m_Drawings[2].m_Shape = "GBR_SPOT_RECT"
    /\ m_Drawings[2].m_Size = <<30, 20>>

\* C17: with polygon-fill off and an arc interpolation mode a D01 appends
\* exactly one item: an Arc when the relative-centre marker is set, the
\* marker being cleared, and otherwise a Line from the previous to the
\* current position; the command succeeds and the previous position becomes
\* the current position.
C17_ArcDraw ==
    [][ (Execute_DCODE_Command(1) /\ ~m_PolygonFillMode /\ IsArcMode) =>
          LET it == Last(m_Drawings')
          IN  /\ OneMoreItem
              /\ m_LastCoordIsIJPos =>
                    /\ it.m_Shape = "GBR_ARC"
                    /\ ~m_LastCoordIsIJPos'
              /\ ~m_LastCoordIsIJPos =>
                    /\ Line(it)
                    /\ it.m_Start = m_PreviousPos
                    /\ it.m_End = m_CurrentPos
                    /\ ~m_LastCoordIsIJPos'
              /\ it.sr = 1
              /\ ret'
              /\ m_PreviousPos' = m_CurrentPos
      ]_vars

\* an Arc has been drawn and the marker is cleared
C17_Witness ==
    /\ ~m_PolygonFillMode
    /\ IsArcMode
    /\ Len(m_Drawings) = 1
    /\ m_Drawings[1].m_Shape = "GBR_ARC"
    /\ m_Drawings[1].m_ArcCentre = m_IJPos
    /\ ~m_LastCoordIsIJPos
    /\ m_Last_Pen_Command = 1
    /\ m_PreviousPos = <<10, 0>>

\* C18: a pen D-command returns failure exactly when its code is outside
\* {1,2,3} with polygon-fill off, or outside {1,2} with polygon-fill on; a
\* failing pen command appends no item, changes no position, mode flag or
\* tool, gives nothing to step-and-repeat and logs no message.
C18_PenFailure ==
    [][ \A d \in PenCodes :
          Execute_DCODE_Command(d) =>
            LET outside == IF m_PolygonFillMode THEN d \notin {1, 2}
                           ELSE d \notin {1, 2, 3}
            IN  /\ (ret' = FALSE) <=> outside
                /\ outside =>
                     UNCHANGED <<posVars, modeVars, toolVars, ioVars,
                                 m_Drawings, crashed>>
      ]_vars

\* D03 has failed in polygon-fill mode next to an open Region, no Flash made
C18_Witness ==
    /\ m_PolygonFillMode
    /\ m_Exposure
    /\ m_Last_Pen_Command = 3
    /\ ~ret
    /\ Len(m_Drawings) = 1
    /\ Region(m_Drawings[1])

\* C19: with polygon-fill on, a D02 finding a region open (exposure on)
\* appends the region's first vertex to its outline and hands it once to
\* step-and-repeat; finding none open it leaves the item list unchanged; in
\* both cases exposure is off and the previous position is the current
\* position afterwards, and the polygon-fill flag stays on.
C19_PolyMove ==
    [][ (Execute_DCODE_Command(2) /\ m_PolygonFillMode) =>
          /\ m_Exposure =>
                LET old == Last(m_Drawings)
                    new == Last(m_Drawings')
                IN  /\ Len(m_Drawings') = Len(m_Drawings)
                    /\ \A i \in 1..(Len(m_Drawings) - 1) :
                          m_Drawings'[i] = m_Drawings[i]
                    /\ Region(old)
                    /\ new.m_Polygon = old.m_Polygon \o <<old.m_Polygon[1]>>
                    /\ old.sr = 0 /\ new.sr = 1
          /\ ~m_Exposure => m_Drawings' = m_Drawings
          /\ ~m_Exposure'
          /\ m_PreviousPos' = m_CurrentPos
          /\ m_PolygonFillMode'
          /\ ret'
      ]_vars

\* a polygon-mode D02 has closed the Region (0,0), (10,0)
C19_Witness ==
    /\ m_PolygonFillMode
    /\ ~m_Exposure
    /\ m_Last_Pen_Command = 2
    /\ Len(m_Drawings) = 1
    /\ m_Drawings[1].m_Polygon = << <<0, 0>>, <<10, 0>>, <<0, 0>> >>
    /\ m_Drawings[1].sr = 1
    /\ m_PreviousPos = m_CurrentPos

\* C20: whenever the polygon-fill flag and the exposure flag are both on,
\* the last item is a Region with a non-empty outline that has not been
\* closed; a polygon-mode D01 appends a new Region only when exposure is
\* off, and otherwise extends the outline of the last Region and keeps the
\* number of items.
C20_OpenRegion ==
    /\ []( (m_PolygonFillMode /\ m_Exposure) =>
             /\ m_Drawings # <<>>
             /\ Region(Last(m_Drawings))
             /\ Last(m_Drawings).m_Polygon # <<>>
             /\ Last(m_Drawings).sr = 0 )
    /\ [][ (Execute_DCODE_Command(1) /\ m_PolygonFillMode) =>
             IF ~m_Exposure
             THEN /\ OneMoreItem
                  /\ Region(Last(m_Drawings'))
             ELSE /\ Len(m_Drawings') = Len(m_Drawings)
                  /\ \A i \in 1..(Len(m_Drawings) - 1) :
                        m_Drawings'[i] = m_Drawings[i]
                  /\ Region(Last(m_Drawings'))
                  /\ Len(Last(m_Drawings').m_Polygon)
                        > Len(Last(m_Drawings).m_Polygon)
                  /\ SubSeq(Last(m_Drawings').m_Polygon, 1,
                            Len(Last(m_Drawings).m_Polygon))
                        = Last(m_Drawings).m_Polygon
         ]_vars

\* an open Region has been extended by a second polygon-mode D01
C20_Witness ==
    /\ m_PolygonFillMode
    /\ m_Exposure
    /\ Len(m_Drawings) = 1
    /\ m_Drawings[1].m_Polygon = << <<0, 0>>, <<10, 0>>, <<0, 0>> >>
    /\ m_Drawings[1].sr = 0

\* what a tool selection of number n leaves behind
Selected(n) ==
    LET tool == IF n < TOOLS_MAX_COUNT - 1 THEN n ELSE TOOLS_MAX_COUNT - 1
    IN  /\ ret'
        /\ m_Current_Tool' = tool
        /\ m_InUse' = IF tool \in DOMAIN Apertures THEN m_InUse \cup {tool}
                      ELSE m_InUse
        /\ UNCHANGED <<posVars, modeVars, m_messages, x2cmds,
                       m_Last_Pen_Command, m_Drawings, crashed>>

\* C21: for every n >= FIRST_DCODE, G54 followed by Dn and the D-command n
\* both succeed and leave the same interpreter state: the selected tool is
\* min(n, TOOLS_MAX_COUNT - 1), that aperture is marked in use, the item
\* list and everything else is as before; G54 with n < FIRST_DCODE returns
\* failure and leaves the selected tool unchanged.
C21_SelectAlias ==
    [][ \A c \in SelectCases :
          /\ (Execute_G_Command(c[1], GC_SELECT_TOOL) /\ c[2] >= FIRST_DCODE)
                => Selected(c[2])
          /\ (Execute_DCODE_Command(c[2]) /\ c[2] >= FIRST_DCODE)
                => Selected(c[2])
          /\ (Execute_G_Command(c[1], GC_SELECT_TOOL) /\ c[2] < FIRST_DCODE)
                => /\ ~ret'
                   /\ UNCHANGED <<toolVars, m_Drawings>>
      ]_vars

\* the last tool slot is selected from the text D1005, D11 was selected before
C21_Witness ==
    /\ m_Current_Tool = TOOLS_MAX_COUNT - 1
    /\ text = <<"*">>
    /\ m_InUse = {11}
    /\ ret
    /\ nCmds = 3

\* C22: the interpolation codes G01, G02, G03 change only the interpolation
\* mode, G90 and G91 only the absolute/relative flag, G74 and G75 only the
\* 360-degree flag: G74 and G75 leave the interpolation mode, the exposure,
\* the positions and the item list unchanged.
C22_OneEffect ==
    [][ /\ \A g \in {GC_LINEAR_INTERPOL_1X, GC_CIRCLE_NEG_INTERPOL,
                     GC_CIRCLE_POS_INTERPOL} :
              Execute_G_Command(NoStar, g) =>
                UNCHANGED <<posVars, m_GerbMetric, m_Relative, m_360Arc_enbl,
                            m_PolygonFillMode, m_PolygonFillModeState,
                            m_Exposure, toolVars, m_Last_Pen_Command,
                            m_Drawings>>
        /\ \A g \in {GC_SPECIFY_ABSOLUES_COORD, GC_SPECIFY_RELATIVEES_COORD} :
              Execute_G_Command(NoStar, g) =>
                UNCHANGED <<posVars, m_Iterpolation, m_GerbMetric,
                            m_360Arc_enbl, m_PolygonFillMode,
                            m_PolygonFillModeState, m_Exposure, toolVars,
                            m_Last_Pen_Command, m_Drawings>>
        /\ \A g \in {GC_TURN_OFF_360_INTERPOL, GC_TURN_ON_360_INTERPOL} :
              Execute_G_Command(NoStar, g) =>
                UNCHANGED <<posVars, m_Iterpolation, m_GerbMetric, m_Relative,
                            m_PolygonFillMode, m_PolygonFillModeState,
                            m_Exposure, toolVars, m_Last_Pen_Command,
                            m_Drawings>>
      ]_vars

\* C23: the clockwise flag given to the arc resolver is true exactly when
\* the interpolation mode is arc-negative, so that an Arc drawn by a
\* normal-mode D01 in arc-negative mode has start = previous position and
\* end = current position, and one drawn in arc-positive mode has start =
\* current position and end = previous position.
C23_ClockwiseFlag ==
    /\ [](IsArcMode =>
            (ArcClockwise <=> m_Iterpolation = GERB_INTERPOL_ARC_NEG))
    /\ [][ (Execute_DCODE_Command(1) /\ ~m_PolygonFillMode /\ IsArcMode
            /\ m_LastCoordIsIJPos) =>
             LET it == Last(m_Drawings')
             IN  /\ it.m_Shape = "GBR_ARC"
                 /\ IF m_Iterpolation = GERB_INTERPOL_ARC_NEG
                    THEN it.m_Start = m_PreviousPos /\ it.m_End = m_CurrentPos
                    ELSE it.m_Start = m_CurrentPos /\ it.m_End = m_PreviousPos
         ]_vars

\* C24: vertex 0 of a Region's outline is the previous position at the
\* moment the region was opened, whether the first segment is straight or an
\* arc, and is kept; the vertices a polygon-mode D01 contributes run from the
\* segment's start point (the previous position) to its end point (the
\* current position), which is the last vertex contributed.
C24_RegionVertices ==
    [][ (Execute_DCODE_Command(1) /\ m_PolygonFillMode) =>
          LET old == IF m_Exposure THEN Last(m_Drawings).m_Polygon ELSE <<>>
              new == Last(m_Drawings').m_Polygon
          IN  /\ Len(new) > Len(old)
              /\ SubSeq(new, 1, Len(old)) = old
              /\ ~m_Exposure => new[1] = m_PreviousPos
              /\ \/ new[Len(old) + 1] = m_PreviousPos
                 \/ (old # <<>> /\ old[Len(old)] = m_PreviousPos)
              /\ new[Len(new)] = m_CurrentPos
      ]_vars

\* C25: the interpolation mode is always linear, arc-negative or
\* arc-positive; the "interpol error" branch of a normal-mode D01 is never
\* taken: every normal-mode D01 succeeds, appends exactly one item and logs
\* no message.
C25_InterpolationModes ==
    /\ [](m_Iterpolation \in {GERB_INTERPOL_LINEAR_1X, GERB_INTERPOL_ARC_NEG,
                              GERB_INTERPOL_ARC_POS})
    /\ [][ (Execute_DCODE_Command(1) /\ ~m_PolygonFillMode) =>
             /\ ret'
             /\ OneMoreItem
             /\ m_messages' = m_messages
         ]_vars

\* items have been drawn in arc-positive mode and no message was logged
C25_Witness ==
    /\ m_Iterpolation = GERB_INTERPOL_ARC_POS
    /\ ~m_PolygonFillMode
    /\ Len(m_Drawings) = 2
    /\ m_Drawings[2].m_Shape = "GBR_ARC"
    /\ m_Last_Pen_Command = 1
    /\ m_messages = <<>>

\* C26: a G37 or a polygon-mode D02 that changes an item changes a Region
\* with a non-empty outline; a G37 outside polygon-fill mode changes no Line,
\* Arc or Flash and ends normally; no item is handed to step-and-repeat more
\* than once.
C26_CloseOnlyRegions ==
    /\ [](\A i \in 1..Len(m_Drawings) : m_Drawings[i].sr <= 1)
    /\ []( ~crashed )
    /\ [][ ( \/ Execute_G_Command(NoStar, GC_TURN_OFF_POLY_FILL)
             \/ (Execute_DCODE_Command(2) /\ m_PolygonFillMode) ) =>
             ( m_Drawings' # m_Drawings =>
                 /\ Region(Last(m_Drawings))
                 /\ Last(m_Drawings).m_Polygon # <<>> )
         ]_vars

\* C27: every Region that is followed by another item in the list has been
\* closed (first vertex = last vertex) and handed to step-and-repeat exactly
\* once, also when G36 is executed while a region is open.
C27_NoOpenRegionLeft ==
    \A i \in 1..(Len(m_Drawings) - 1) :
        Region(m_Drawings[i]) =>
            /\ m_Drawings[i].m_Polygon # <<>>
            /\ m_Drawings[i].m_Polygon[1] =
                  m_Drawings[i].m_Polygon[Len(m_Drawings[i].m_Polygon)]
            /\ m_Drawings[i].sr = 1

\* C28: a G- or D-command changes the relative-centre marker only when it
\* is a normal-mode D01 in an arc mode that builds an Arc, which clears it;
\* a polygon-mode D01 in an arc mode appends the corners of the arc around
\* the stored relative centre whether the marker is set or not.
C28_Marker ==
    [][ /\ (nCmds' # nCmds /\ m_LastCoordIsIJPos' # m_LastCoordIsIJPos) =>
              /\ Execute_DCODE_Command(1)
              /\ ~m_PolygonFillMode /\ IsArcMode
              /\ m_LastCoordIsIJPos /\ ~m_LastCoordIsIJPos'
              /\ Last(m_Drawings').m_Shape = "GBR_ARC"
        /\ (Execute_DCODE_Command(1) /\ m_PolygonFillMode /\ IsArcMode) =>
              LET old == IF m_Exposure THEN Last(m_Drawings).m_Polygon
                         ELSE <<>>
                  new == Last(m_Drawings').m_Polygon
                  center == ArcCenter(m_PreviousPos, m_CurrentPos, m_IJPos,
                                      ArcClockwise, m_360Arc_enbl)
              IN  /\ Len(new) > Len(old)
                  /\ SubSeq(new, 1, Len(old)) = old
                  /\ new[Len(new)] = m_CurrentPos
                  /\ Len(new) - Len(old) =
                        1 + ArcStepCount(
                              PSub(IF ArcClockwise THEN m_PreviousPos
                                   ELSE m_CurrentPos, center),
                              PSub(IF ArcClockwise THEN m_CurrentPos
                                   ELSE m_PreviousPos, center))
                  /\ m_LastCoordIsIJPos' = m_LastCoordIsIJPos
      ]_vars

\* an arc has been tessellated into a Region while the marker was not set
C28_Witness ==
    /\ m_PolygonFillMode
    /\ m_Iterpolation = GERB_INTERPOL_ARC_POS
    /\ ~m_LastCoordIsIJPos
    /\ m_Exposure
    /\ m_Last_Pen_Command = 1
    /\ Len(m_Drawings) = 1
    /\ Len(m_Drawings[1].m_Polygon) = 1
    /\ m_CurrentPos = <<10, 0>>
====
